---- MODULE Spec2Model ----
(***************************************************************************)
(* Model of skypipe/cloud.py: discover_satellite, destroy_satellite and    *)
(* launch_satellite driving the dotcloud REST API and the endpoint probe.  *)
(* One behaviour is one call of discover_satellite(cli, deploy, timeout).  *)
(***************************************************************************)
EXTENDS Integers, Sequences, FiniteSets, TLC

VARIABLES pc, loaded, deploy, timeout, app, inTry, launches, calls,
          environ, endpoint, trace, deployId, result,
          probeOk, stdout, errors, tasks, finish, interleaved

vars == <<pc, loaded, deploy, timeout, app, inTry, launches, calls,
          environ, endpoint, trace, deployId, result,
          probeOk, stdout, errors, tasks, finish, interleaved>>

-----------------------------------------------------------------------------
(* Program constants *)

APPNAME == "skypipe0"
DefaultTimeout == 5
LongTimeout == 120
PORT_KEY == "DOTCLOUD_SATELLITE_ZMQ_PORT"
HOST_KEY == "DOTCLOUD_SATELLITE_ZMQ_HOST"

(* Bounds of the model *)

MaxExitCode == 2
BigTimeout == 150
MaxTrace == 2

-----------------------------------------------------------------------------
(* The environment the remote platform can answer with *)

Ports == {"9000", "9001"}
Hosts == {"sat.dotcloud.example", "gone.dotcloud.invalid"}
EnvKeys == {PORT_KEY, HOST_KEY}

\* name resolution: only hosts in the domain resolve, the others raise gaierror
DNS == [h \in {"sat.dotcloud.example"} |-> "10.0.0.5"]

Envs == {e \in UNION {[K -> Ports \cup Hosts] : K \in SUBSET EnvKeys} :
            /\ PORT_KEY \in DOMAIN e => e[PORT_KEY] \in Ports
            /\ HOST_KEY \in DOMAIN e => e[HOST_KEY] \in Hosts}

Timeouts == {DefaultTimeout, BigTimeout}
Latencies == {1, DefaultTimeout + 1, BigTimeout + 1}
ExitCodes == 0 .. MaxExitCode
TraceIds == 1 .. MaxTrace
DeployIds == {MaxTrace + 1}

-----------------------------------------------------------------------------
(* Pure helpers *)

\* lookup_endpoint applied to the answer of GET /applications/skypipe0/environment
LookupEndpoint(status, env) ==
    IF status # 200 THEN [exc |-> "RESTAPIError", ep |-> ""]
    ELSE IF PORT_KEY \notin DOMAIN env THEN [exc |-> "KeyError", ep |-> ""]
    ELSE IF HOST_KEY \notin DOMAIN env THEN [exc |-> "KeyError", ep |-> ""]
    ELSE IF env[HOST_KEY] \notin DOMAIN DNS THEN [exc |-> "gaierror", ep |-> ""]
    ELSE [exc |-> "",
          ep |-> "tcp://" \o DNS[env[HOST_KEY]] \o ":" \o env[PORT_KEY]]

\* client.check_skypipe_endpoint(endpoint, timeout): the service answers after
\* `latency`, the probe gives up after `tmo`
CheckSkypipeEndpoint(latency, tmo) == latency <= tmo

\* the except clause of discover_satellite
Handled(exc) == exc \in {"RESTAPIError", "KeyError"}

\* destroy_satellite without its except clause
DestroySwallows_Propagates(exc) == FALSE

\* the except clause of destroy_satellite
DestroySwallows(exc) == exc = "RESTAPIError"

\* values a call can end with
NoneVal == [t |-> "None", s |-> "", n |-> 0]
StrVal(s) == [t |-> "str", s |-> s, n |-> 0]
IntVal(n) == [t |-> "int", s |-> "", n |-> n]

Running == [kind |-> "running", val |-> NoneVal, msg |-> "", trace |-> 0]
Returned(v) == [kind |-> "return", val |-> v, msg |-> "", trace |-> 0]
Exited(m) == [kind |-> "exit", val |-> NoneVal, msg |-> m, trace |-> 0]
Raised(e) == [kind |-> "raise", val |-> NoneVal, msg |-> e, trace |-> 0]

\* one remote operation as the call log keeps it
Call(op, ep, ok, code, exc) ==
    [op |-> op, att |-> launches, ep |-> ep, ok |-> ok, code |-> code,
     exc |-> exc, tmo |-> 0, lat |-> 0]

\* one probe: the timeout it was given and the time the service took
ProbeCall(ep, ok, tmo, lat) ==
    [op |-> "probe", att |-> launches, ep |-> ep, ok |-> ok, code |-> 0,
     exc |-> "", tmo |-> tmo, lat |-> lat]

\* a progress task of wait_for: its stop event, its thread and its stream
Task(text, io) ==
    [text |-> text, set |-> FALSE, st |-> "loop", io |-> io]

-----------------------------------------------------------------------------
Init ==
    /\ pc = "start"
    /\ loaded \in BOOLEAN
    /\ deploy \in BOOLEAN
    /\ timeout \in Timeouts
    /\ app \in BOOLEAN
    /\ inTry = FALSE
    /\ launches = 0
    /\ calls = << >>
    /\ environ = << >>
    /\ endpoint = ""
    /\ trace = 0
    /\ deployId = 0
    /\ result = Running
    /\ probeOk = FALSE
    /\ stdout = "original"
    /\ errors = << >>
    /\ tasks = << >>
    /\ finish = 0
    /\ interleaved = FALSE

-----------------------------------------------------------------------------
(* Answers of the remote platform *)

\* status 0 stands for a transport failure: no HTTP answer at all
RestExc(status) ==
    IF status = 0 THEN "IOError"
    ELSE IF status >= 400 THEN "RESTAPIError"
    ELSE ""

EnvStatuses == IF app THEN {200, 500, 0} ELSE {404, 500, 0}
DestroyStatuses == IF app THEN {204, 500, 0} ELSE {404, 0}
CreateStatuses == IF app THEN {409, 500, 0} ELSE {201, 500, 0}
ListStatuses == {200, 500, 0}
TriggerStatuses == {201, 500, 0}
PushOutcomes == {"ok", "fail"}
StreamOutcomes ==
    {[exc |-> "", code |-> c] : c \in ExitCodes} \cup
    {[exc |-> e, code |-> 0] :
        e \in {"KeyboardInterrupt", "RuntimeError", "RESTAPIError"}}

-----------------------------------------------------------------------------
(* Control flow decisions of the code *)

\* the validation probe's verdict ignored when deploy is allowed
AfterProbe_AlwaysLaunch(ok, dep) ==
    IF dep THEN "launch" ELSE IF ok THEN "return" ELSE "none"

\* discover_satellite, lines 111-114: what follows the validation probe
AfterProbe(ok, dep) ==
    IF ok THEN "return" ELSE IF dep THEN "launch" ELSE "none"

\* discover_satellite, line 116: what the except handler does
AfterHandled(dep) == IF dep THEN "launch" ELSE "none"

\* the deployment triggered before the code is pushed
NextStep_TriggerFirst(step) ==
    CASE step = "launch"  -> "destroy"
      [] step = "destroy" -> "create"
      [] step = "create"  -> "list"
      [] step = "list"    -> "trigger"
      [] step = "trigger" -> "push"
      [] step = "push"    -> "signal_deploy"
      [] step = "signal_deploy" -> "start_deploy"
      [] step = "start_deploy"  -> "stream"
      [] step = "stream"        -> "streaming"
      [] step = "streaming"     -> "signal_online"
      [] step = "signal_online" -> "start_online"
      [] step = "start_online"  -> "lookup"
      [] step = "lookup"  -> "probe"
      [] step = "probe"   -> "signal_end"
      [] OTHER            -> "done"

\* launch_satellite: the statement sequence
NextStep(step) ==
    CASE step = "launch"  -> "destroy"
      [] step = "destroy" -> "create"
      [] step = "create"  -> "list"
      [] step = "list"    -> "push"
      [] step = "push"    -> "trigger"
      [] step = "trigger" -> "signal_deploy"
      [] step = "signal_deploy" -> "start_deploy"
      [] step = "start_deploy"  -> "stream"
      [] step = "stream"        -> "streaming"
      [] step = "streaming"     -> "signal_online"
      [] step = "signal_online" -> "start_online"
      [] step = "start_online"  -> "lookup"
      [] step = "lookup"  -> "probe"
      [] step = "probe"   -> "signal_end"
      [] OTHER            -> "done"

\* only the 409 answer treated as fatal
CreateDisposition_Only409(status) ==
    IF RestExc(status) = "" THEN "continue"
    ELSE IF RestExc(status) = "RESTAPIError" THEN
        IF status = 409 THEN "die_exists" ELSE "continue"
    ELSE "throw"

\* launch_satellite, lines 137-146: what follows the create call
CreateDisposition(status) ==
    IF RestExc(status) = "" THEN "continue"
    ELSE IF RestExc(status) = "RESTAPIError" THEN
        IF status = 409 THEN "die_exists" ELSE "die_failed"
    ELSE "throw"

\* KeyboardInterrupt swallowed like RuntimeError
StreamDisposition_SwallowInterrupt(o) ==
    IF o.exc = "" THEN (IF o.code # 0 THEN "return" ELSE "continue")
    ELSE IF o.exc = "KeyboardInterrupt" THEN "continue"
    ELSE IF o.exc = "RuntimeError" THEN "continue"
    ELSE "throw"

\* RuntimeError not swallowed
StreamDisposition_RuntimeErrorPropagates(o) ==
    IF o.exc = "" THEN (IF o.code # 0 THEN "return" ELSE "continue")
    ELSE IF o.exc = "KeyboardInterrupt" THEN "die"
    ELSE "throw"

\* the exit code of the log stream ignored
StreamDisposition_IgnoreCode(o) ==
    IF o.exc = "" THEN "continue"
    ELSE IF o.exc = "KeyboardInterrupt" THEN "die"
    ELSE IF o.exc = "RuntimeError" THEN "continue"
    ELSE "throw"

\* launch_satellite, lines 170-191: what follows the log stream
StreamDisposition(o) ==
    IF o.exc = "" THEN (IF o.code # 0 THEN "return" ELSE "continue")
    ELSE IF o.exc = "KeyboardInterrupt" THEN "die"
    ELSE IF o.exc = "RuntimeError" THEN "continue"
    ELSE "throw"

\* the verdict of the post-deploy probe ignored
AfterOnlineProbe_AlwaysReturn(ok) == "return"

\* launch_satellite, lines 201-204: what follows the post-deploy probe
AfterOnlineProbe(ok) == IF ok THEN "return" ELSE "die"

-----------------------------------------------------------------------------
(* Ways a step ends *)

Finish(r) ==
    /\ pc' = "done"
    /\ result' = r
    /\ inTry' = FALSE

Goto(step) ==
    /\ pc' = step
    /\ UNCHANGED <<result, inTry>>

\* the except clause still in force while its own handler runs
Throw_HandlerRetries(exc) ==
    IF Handled(exc) /\ (inTry \/ launches < 3)
    THEN IF AfterHandled(deploy) = "launch"
         THEN pc' = "launch" /\ inTry' = FALSE /\ UNCHANGED result
         ELSE Finish(Returned(NoneVal))
    ELSE Finish(Raised(exc))

\* an exception leaves the current step: inside the try block of
\* discover_satellite the except clause takes the handled ones
Throw(exc) ==
    IF inTry /\ Handled(exc)
    THEN IF AfterHandled(deploy) = "launch"
         THEN pc' = "launch" /\ inTry' = FALSE /\ UNCHANGED result
         ELSE Finish(Returned(NoneVal))
    ELSE Finish(Raised(exc))

\* cli.die: SystemExit, which no except clause of the module takes
Die(msg) == Finish(Exited(msg))

-----------------------------------------------------------------------------------------------------------------------------------------------------
(* wait_for and the progress threads *)

\* wait_for, lines 39-41: the previous stop event is set, then a short sleep
SignalStop(ts, f) ==
    IF f = 0 THEN ts ELSE [ts EXCEPT ![f].set = TRUE]

\* wait_for, lines 44-53: the header is written and a new thread started
StartTask(ts, text, io) == Append(ts, Task(text, io))

\* the caller's timeout used for the post-deploy probe too
ProbeTimeout_AlwaysShort(phase) == timeout

\* the timeout each probe is given
ProbeTimeout(phase) == IF phase = "validate" THEN timeout ELSE LongTimeout

\* sys.stdout restored after the try statement instead of in finally
StdoutAfterStream_NoFinally(d) ==
    IF d = "continue" THEN "original" ELSE "StringIO"

\* launch_satellite, finally clause: sys.stdout after the streaming step
StdoutAfterStream(d) == "original"

\* the cli.error calls of the KeyboardInterrupt handler, lines 177-185
Guidance ==
    << [text |-> "log stream closed, deployment still running",
        trace |-> 0, dep |-> 0],
       [text |-> "mention this trace ID", trace |-> trace, dep |-> 0],
       [text |-> "continue following your deployment",
        trace |-> 0, dep |-> deployId] >>

\* _wait, lines 46-51: one step of the thread of task k, either one turn of
\* the loop (the event is not set: a dot is written, then the wait) or the
\* way out of it (the event is set: the newline is written, the thread ends)
TaskStep(k) ==
    /\ k \in 1 .. Len(tasks)
    /\ tasks[k].st # "ended"
    /\ tasks' = [tasks EXCEPT ![k].st =
                    IF tasks[k].set THEN "ended" ELSE "loop"]
    \* a write that lands after the header of a later phase
    /\ interleaved' = (interleaved \/ k < Len(tasks))
    /\ UNCHANGED <<pc, loaded, deploy, timeout, app, inTry, launches, calls,
                   environ, endpoint, trace, deployId, result,
                   probeOk, stdout, errors, finish>>

-----------------------------------------------------------------------------
(* discover_satellite *)

\* the configuration check left out
Start_NoCheck ==
    /\ pc = "start"
    /\ pc' = "d_lookup" /\ inTry' = TRUE /\ UNCHANGED result
    /\ UNCHANGED <<interleaved, loaded, deploy, timeout, app, launches,
                   calls, environ, endpoint, trace, deployId, probeOk,
                   stdout, errors, tasks, finish>>

Start ==
    /\ pc = "start"
    /\ IF ~loaded
       THEN Die("Please setup skypipe")
       ELSE pc' = "d_lookup" /\ inTry' = TRUE /\ UNCHANGED result
    /\ UNCHANGED <<interleaved, loaded, deploy, timeout, app, launches, calls, environ,
                   endpoint, trace, deployId, probeOk, stdout, errors,
                   tasks, finish>>

InitialLookup ==
    /\ pc = "d_lookup"
    /\ \E status \in EnvStatuses, env \in Envs :
         LET r == IF RestExc(status) = "IOError"
                  THEN [exc |-> "IOError", ep |-> ""]
                  ELSE LookupEndpoint(status, env)
         IN /\ calls' = Append(calls,
                          Call("lookup", r.ep, r.exc = "", status, r.exc))
            /\ environ' = IF RestExc(status) = "" THEN env ELSE environ
            /\ IF r.exc = ""
               THEN endpoint' = r.ep /\ Goto("d_probe")
               ELSE UNCHANGED endpoint /\ Throw(r.exc)
    /\ UNCHANGED <<interleaved, loaded, deploy, timeout, app, launches, trace, deployId,
                   probeOk, stdout, errors, tasks, finish>>

InitialProbe ==
    /\ pc = "d_probe"
    /\ \E latency \in Latencies :
         LET tmo == ProbeTimeout("validate")
             ok == CheckSkypipeEndpoint(latency, tmo)
             next == AfterProbe(ok, deploy)
         IN /\ calls' = Append(calls, ProbeCall(endpoint, ok, tmo, latency))
            /\ CASE next = "return" -> Finish(Returned(StrVal(endpoint)))
                 [] next = "launch" -> Goto("launch")
                 [] OTHER -> Finish(Returned(NoneVal))
    /\ UNCHANGED <<interleaved, loaded, deploy, timeout, app, launches, environ, endpoint,
                   trace, deployId, probeOk, stdout, errors, tasks, finish>>

-----------------------------------------------------------------------------
(* launch_satellite *)

\* cli.info and the first wait_for, which is given no previous event
Launch ==
    /\ pc = "launch"
    /\ launches' = launches + 1
    /\ tasks' = StartTask(SignalStop(tasks, 0), "Pushing to dotCloud", stdout)
    /\ finish' = Len(tasks) + 1
    /\ Goto(NextStep("launch"))
    /\ UNCHANGED <<interleaved, loaded, deploy, timeout, app, calls, environ, endpoint,
                   trace, deployId, probeOk, stdout, errors>>

\* destroy_satellite
Destroy ==
    /\ pc = "destroy"
    /\ \E status \in DestroyStatuses :
         LET exc == RestExc(status)
         IN /\ calls' = Append(calls,
                          Call("destroy", "", exc = "", status, exc))
            /\ app' = IF exc = "" THEN FALSE ELSE app
            /\ IF exc = "" \/ DestroySwallows(exc)
               THEN Goto(NextStep("destroy"))
               ELSE Throw(exc)
    /\ UNCHANGED <<interleaved, loaded, deploy, timeout, launches, environ, endpoint,
                   trace, deployId, probeOk, stdout, errors, tasks, finish>>

Create ==
    /\ pc = "create"
    /\ \E status \in CreateStatuses :
         LET d == CreateDisposition(status)
         IN /\ calls' = Append(calls,
                  Call("create", "", RestExc(status) = "", status,
                       RestExc(status)))
            /\ app' = IF RestExc(status) = "" THEN TRUE ELSE app
            /\ CASE d = "continue" -> Goto(NextStep("create"))
                 [] d = "die_exists" -> Die("Application already exists.")
                 [] d = "die_failed" -> Die("Creating application failed")
                 [] OTHER -> Throw(RestExc(status))
    /\ UNCHANGED <<interleaved, loaded, deploy, timeout, launches, environ, endpoint,
                   trace, deployId, probeOk, stdout, errors, tasks, finish>>

ListPushEndpoints ==
    /\ pc = "list"
    /\ \E status \in ListStatuses :
         LET exc == RestExc(status)
         IN /\ calls' = Append(calls, Call("list", "", exc = "", status, exc))
            /\ IF exc = "" THEN Goto(NextStep("list")) ELSE Throw(exc)
    /\ UNCHANGED <<interleaved, loaded, deploy, timeout, app, launches, environ, endpoint,
                   trace, deployId, probeOk, stdout, errors, tasks, finish>>

\* cli.push_with_rsync belongs to the dotcloud client; a failed transfer is
\* taken to end the process there (cli.die), which no except clause takes
Push ==
    /\ pc = "push"
    /\ \E o \in PushOutcomes :
         /\ calls' = Append(calls, Call("push", "", o = "ok", 0, ""))
         /\ IF o = "ok" THEN Goto(NextStep("push")) ELSE Die("push failed")
    /\ UNCHANGED <<interleaved, loaded, deploy, timeout, app, launches, environ, endpoint,
                   trace, deployId, probeOk, stdout, errors, tasks, finish>>

Trigger ==
    /\ pc = "trigger"
    /\ \E status \in TriggerStatuses, t \in TraceIds, d \in DeployIds :
         LET exc == RestExc(status)
         IN /\ calls' = Append(calls,
                          Call("trigger", "", exc = "", status, exc))
            /\ IF exc = ""
               THEN trace' = t /\ deployId' = d /\ Goto(NextStep("trigger"))
               ELSE UNCHANGED <<trace, deployId>> /\ Throw(exc)
    /\ UNCHANGED <<interleaved, loaded, deploy, timeout, app, launches, environ, endpoint,
                   probeOk, stdout, errors, tasks, finish>>

\* wait_for("Waiting for deployment", finish, original_stdout), lines 39-41
SignalDeploy ==
    /\ pc = "signal_deploy"
    /\ tasks' = SignalStop(tasks, finish)
    /\ Goto(NextStep("signal_deploy"))
    /\ UNCHANGED <<interleaved, loaded, deploy, timeout, app, launches, calls, environ,
                   endpoint, trace, deployId, probeOk, stdout, errors, finish>>

\* the same call, lines 42-53
StartDeploy ==
    /\ pc = "start_deploy"
    /\ tasks' = StartTask(tasks, "Waiting for deployment", "original")
    /\ finish' = Len(tasks) + 1
    /\ Goto(NextStep("start_deploy"))
    /\ UNCHANGED <<interleaved, loaded, deploy, timeout, app, launches, calls, environ,
                   endpoint, trace, deployId, probeOk, stdout, errors>>

\* line 171: sys.stdout replaced, the log stream entered
StreamBegin ==
    /\ pc = "stream"
    /\ stdout' = "StringIO"
    /\ Goto(NextStep("stream"))
    /\ UNCHANGED <<interleaved, loaded, deploy, timeout, app, launches, calls, environ,
                   endpoint, trace, deployId, probeOk, errors, tasks, finish>>

\* lines 172-191: the log stream ends, the handlers and the finally clause
StreamLogs ==
    /\ pc = "streaming"
    /\ \E o \in StreamOutcomes :
         LET d == StreamDisposition(o)
         IN /\ calls' = Append(calls,
                          Call("stream", "", o.exc = "", o.code, o.exc))
            /\ errors' = IF d = "die" THEN errors \o Guidance ELSE errors
            /\ stdout' = StdoutAfterStream(d)
            /\ CASE d = "return" -> Finish(Returned(IntVal(o.code)))
                 [] d = "continue" -> Goto(NextStep("streaming"))
                 [] d = "die" -> Die("")
                 [] OTHER -> Throw(o.exc)
    /\ UNCHANGED <<interleaved, loaded, deploy, timeout, app, launches, environ, endpoint,
                   trace, deployId, probeOk, tasks, finish>>

\* wait_for("Satellite coming online", finish), lines 39-41
SignalOnline ==
    /\ pc = "signal_online"
    /\ tasks' = SignalStop(tasks, finish)
    /\ Goto(NextStep("signal_online"))
    /\ UNCHANGED <<interleaved, loaded, deploy, timeout, app, launches, calls, environ,
                   endpoint, trace, deployId, probeOk, stdout, errors, finish>>

\* the same call, lines 42-53
StartOnline ==
    /\ pc = "start_online"
    /\ tasks' = StartTask(tasks, "Satellite coming online", stdout)
    /\ finish' = Len(tasks) + 1
    /\ Goto(NextStep("start_online"))
    /\ UNCHANGED <<interleaved, loaded, deploy, timeout, app, launches, calls, environ,
                   endpoint, trace, deployId, probeOk, stdout, errors>>

OnlineLookup ==
    /\ pc = "lookup"
    /\ \E status \in EnvStatuses, env \in Envs :
         LET r == IF RestExc(status) = "IOError"
                  THEN [exc |-> "IOError", ep |-> ""]
                  ELSE LookupEndpoint(status, env)
         IN /\ calls' = Append(calls,
                          Call("lookup", r.ep, r.exc = "", status, r.exc))
            /\ environ' = IF RestExc(status) = "" THEN env ELSE environ
            /\ IF r.exc = ""
               THEN endpoint' = r.ep /\ Goto(NextStep("lookup"))
               ELSE UNCHANGED endpoint /\ Throw(r.exc)
    /\ UNCHANGED <<interleaved, loaded, deploy, timeout, app, launches, trace, deployId,
                   probeOk, stdout, errors, tasks, finish>>

\* line 196
OnlineProbe ==
    /\ pc = "probe"
    /\ \E latency \in Latencies :
         LET tmo == ProbeTimeout("online")
             ok == CheckSkypipeEndpoint(latency, tmo)
         IN /\ calls' = Append(calls, ProbeCall(endpoint, ok, tmo, latency))
            /\ probeOk' = ok
    /\ Goto(NextStep("probe"))
    /\ UNCHANGED <<interleaved, loaded, deploy, timeout, app, launches, environ, endpoint,
                   trace, deployId, stdout, errors, tasks, finish>>

\* lines 198-204: the last event set, then the endpoint or cli.die
SignalEnd ==
    /\ pc = "signal_end"
    /\ tasks' = SignalStop(tasks, finish)
    /\ IF AfterOnlineProbe(probeOk) = "return"
       THEN Finish(Returned(StrVal(endpoint)))
       ELSE Die("Satellite failed to come online")
    /\ UNCHANGED <<interleaved, loaded, deploy, timeout, app, launches, calls, environ,
                   endpoint, trace, deployId, probeOk, stdout, errors, finish>>

-----------------------------------------------------------------------------
\* the steps of the calling thread
Flow ==
    \/ Start
    \/ InitialLookup
    \/ InitialProbe
    \/ Launch
    \/ Destroy
    \/ Create
    \/ ListPushEndpoints
    \/ Push
    \/ Trigger
    \/ SignalDeploy
    \/ StartDeploy
    \/ StreamBegin
    \/ StreamLogs
    \/ SignalOnline
    \/ StartOnline
    \/ OnlineLookup
    \/ OnlineProbe
    \/ SignalEnd

\* the steps of the progress threads
Progress == \E k \in 1 .. Len(tasks) : TaskStep(k)

Next == Flow \/ Progress

Spec == Init /\ [][Next]_vars

\* the calling thread keeps running: every remote call returns or fails
FairSpec == Spec /\ WF_vars(Flow)

-----------------------------------------------------------------------------
(* Reading the call log *)

Count(op) == Cardinality({i \in 1 .. Len(calls) : calls[i].op = op})

DeployOps == {"destroy", "create", "list", "push", "trigger", "stream"}

\* the remote operations of redeploy attempt a, in the order issued
AttemptOps(a) ==
    LET sel == SelectSeq(calls, LAMBDA c : c.att = a)
    IN [i \in 1 .. Len(sel) |-> sel[i].op]

IsPrefix(s, t) ==
    /\ Len(s) <= Len(t)
    /\ \A i \in 1 .. Len(s) : s[i] = t[i]

RedeployOrder ==
    <<"destroy", "create", "list", "push", "trigger", "stream",
      "lookup", "probe">>

\* the initial lookup of this call has been made and failed in one of the
\* ways the platform or the environment data can make it fail
InitialLookupFailed ==
    /\ Len(calls) >= 1
    /\ calls[1].op = "lookup"
    /\ ~calls[1].ok
    /\ calls[1].code # 0

InitialProbeFailed ==
    /\ Len(calls) >= 2
    /\ calls[2].op = "probe"
    /\ calls[2].att = 0
    /\ ~calls[2].ok

\* index of a log stream that returned a nonzero exit code
NonzeroStream(i) ==
    /\ calls[i].op = "stream"
    /\ calls[i].ok
    /\ calls[i].code # 0

-----------------------------------------------------------------------------
(* Claims *)

\* C1: one call of discover_satellite enters launch_satellite at most once
\* and issues destroy and create at most once each.
C1_AtMostOneRedeploy ==
    /\ launches <= 1
    /\ Count("destroy") <= 1
    /\ Count("create") <= 1

\* C2: a returned value is None or an endpoint built from a lookup of this
\* call that then passed a probe of this call; after a redeploy it is the
\* endpoint of the post-deploy lookup.
C2_ReturnsNoneOrProbedEndpoint ==
    result.kind = "return" =>
        \/ result.val.t = "None"
        \/ /\ result.val.t = "str"
           /\ \E i \in 1 .. Len(calls) :
                /\ i < Len(calls)
                /\ calls[i].op = "lookup" /\ calls[i].ok
                /\ calls[i].ep = result.val.s
                /\ calls[i + 1].op = "probe" /\ calls[i + 1].ok
                /\ calls[i + 1].ep = result.val.s
                /\ calls[i].att = launches

\* C3: a log stream ending with a nonzero exit code ends the call in a
\* deployment-failure error carrying the trace identifier, not in a return.
C3_NonzeroExitIsDeployFailure ==
    (pc = "done" /\ \E i \in 1 .. Len(calls) : NonzeroStream(i)) =>
        /\ result.kind \in {"exit", "raise"}
        /\ result.trace = trace

\* C4: after a log stream that returned a nonzero exit code, the attempt
\* makes no post-deploy lookup and no post-deploy probe.
C4_NoProbeAfterNonzeroExit ==
    \A i \in 1 .. Len(calls) :
        NonzeroStream(i) =>
            /\ \A j \in 1 .. Len(calls) :
                  (calls[j].att = calls[i].att /\ j # i) =>
                      (j < i /\ calls[j].op \notin {"lookup", "probe"})
            /\ pc \notin {"lookup", "probe"}

C4_Witness ==
    /\ pc = "done"
    /\ Len(calls) >= 1
    /\ NonzeroStream(Len(calls))

\* C5: with deploy allowed, a failed initial lookup leads into the redeploy
\* sequence and its error is never propagated to the caller.
C5_LookupFailureRedeploys ==
    (deploy /\ InitialLookupFailed) =>
        /\ pc = "launch" \/ launches >= 1
        /\ ~(result.kind = "raise" /\ launches = 0)

\* C6: with deploy not allowed, no redeploy operation is ever issued, and a
\* failed lookup or a failed probe makes the call return None.
C6_NoDeployReturnsNone ==
    ~deploy =>
        /\ launches = 0
        /\ \A i \in 1 .. Len(calls) : calls[i].op \notin DeployOps
        /\ (pc = "done" /\ (InitialLookupFailed \/ InitialProbeFailed)) =>
              result = Returned(NoneVal)

\* C7: when the initial lookup returns host and port and the initial probe
\* succeeds, the call returns tcp://<host address>:<port> and issues no
\* redeploy operation, whatever deploy is.
C7_ValidEndpointReturnedUntouched ==
    (/\ pc = "done"
     /\ Len(calls) >= 2
     /\ calls[1].op = "lookup" /\ calls[1].ok
     /\ calls[2].op = "probe" /\ calls[2].att = 0 /\ calls[2].ok) =>
        /\ result = Returned(StrVal(
              "tcp://" \o DNS[environ[HOST_KEY]] \o ":" \o environ[PORT_KEY]))
        /\ Len(calls) = 2
        /\ launches = 0

C7_Witness ==
    /\ pc = "done"
    /\ deploy
    /\ Len(calls) = 2
    /\ calls[2].op = "probe" /\ calls[2].ok
    /\ result = Returned(StrVal("tcp://10.0.0.5:9000"))

\* C8: create is issued only right after a destroy of the same attempt has
\* returned, and it is issued after every outcome of that destroy
\* (deleted, absent, API error).
C8_DestroyBeforeCreate ==
    /\ \A i \in 1 .. Len(calls) :
          calls[i].op = "create" =>
              /\ i > 1
              /\ calls[i - 1].op = "destroy"
              /\ calls[i - 1].att = calls[i].att
    /\ \A i \in 1 .. Len(calls) :
          (calls[i].op = "destroy" /\ calls[i].code \in {204, 404, 500}) =>
              IF i = Len(calls)
              THEN pc = "create"
              ELSE calls[i + 1].op = "create" /\ calls[i + 1].att = calls[i].att
    /\ pc = "create" =>
          (Len(calls) >= 1 /\ calls[Len(calls)].op = "destroy"
             /\ calls[Len(calls)].att = launches)

C8_Witness ==
    \E i \in 1 .. Len(calls) :
        /\ i < Len(calls)
        /\ calls[i].op = "destroy" /\ calls[i].code = 500
        /\ calls[i + 1].op = "create" /\ calls[i + 1].code = 409

\* C9: within one redeploy attempt the remote operations are issued in the
\* order destroy, create, list, push, trigger, stream, lookup, probe, each
\* at most once and each after the previous one has returned.
C9_RedeployOrder ==
    \A a \in 1 .. launches :
        /\ IsPrefix(AttemptOps(a), RedeployOrder)
        /\ (a = launches /\ pc \in DeployOps \cup {"lookup", "probe"}) =>
              /\ Len(AttemptOps(a)) < Len(RedeployOrder)
              /\ pc = RedeployOrder[Len(AttemptOps(a)) + 1]

C9_Witness ==
    /\ pc = "done"
    /\ launches = 2
    /\ AttemptOps(2) = RedeployOrder

\* C10: a create call failing with 409 or any other API error ends the
\* workflow at once with a fatal error; nothing is issued afterwards and
\* create is not retried.
C10_CreateFailureIsFatal ==
    \A i \in 1 .. Len(calls) :
        (calls[i].op = "create" /\ ~calls[i].ok /\ calls[i].code # 0) =>
            /\ i = Len(calls)
            /\ pc = "done"
            /\ result.kind = "exit"

C10_Witness ==
    /\ pc = "done"
    /\ Len(calls) >= 1
    /\ calls[Len(calls)].op = "create"
    /\ calls[Len(calls)].code = 500
    /\ result.kind = "exit"

-----------------------------------------------------------------------------
(* Claims on the failure paths, the timeouts and the progress tasks *)

\* a log stream that let the redeploy go on: exit code 0 or RuntimeError
StreamPassed(c) ==
    /\ c.op = "stream"
    /\ (c.ok /\ c.code = 0) \/ c.exc = "RuntimeError"

OnlineProbeCall(c) == c.op = "probe" /\ c.att >= 1

InitialProbeCall(c) == c.op = "probe" /\ c.att = 0

\* C11: a failed post-deploy probe is the last remote operation of the
\* call, which ends in the fatal online-timeout exit and returns no endpoint.
C11_OnlineTimeoutIsTerminal ==
    \A i \in 1 .. Len(calls) :
        (OnlineProbeCall(calls[i]) /\ ~calls[i].ok) =>
            /\ i = Len(calls)
            /\ pc \in {"signal_end", "done"}
            /\ pc = "done" =>
                 result = Exited("Satellite failed to come online")

C11_Witness ==
    /\ pc = "done"
    /\ Len(calls) >= 1
    /\ OnlineProbeCall(calls[Len(calls)])
    /\ ~calls[Len(calls)].ok
    /\ result.kind = "exit"

C13_NotConfiguredFailsAtOnce ==
    ~loaded =>
        /\ calls = << >>
        /\ launches = 0
        /\ tasks = << >>
        /\ pc \in {"start", "done"}
        /\ pc = "done" => result = Exited("Please setup skypipe")

C13_Witness ==
    /\ ~loaded
    /\ pc = "done"
    /\ result.kind = "exit"

\* what C14 says of each probe of the call log
ProbeTimeoutsOrdered ==
    \A i \in 1 .. Len(calls) :
        /\ InitialProbeCall(calls[i]) =>
             /\ calls[i].tmo = timeout
             /\ calls[i].tmo < LongTimeout
             /\ calls[i].lat > calls[i].tmo => ~calls[i].ok
        /\ OnlineProbeCall(calls[i]) =>
             /\ calls[i].tmo = LongTimeout
             /\ calls[i].lat <= LongTimeout => calls[i].ok

C15_TasksStoppedAtEnd ==
    pc = "done" => \A k \in 1 .. Len(tasks) : tasks[k].set

\* C16: at most one progress task has an unset stop event.
C16_AtMostOneUnsignalled ==
    Cardinality({k \in 1 .. Len(tasks) : ~tasks[k].set}) <= 1

\* C17: no progress thread writes after the header of a later phase has
\* been written.
C17_NoInterleavedOutput == ~interleaved

\* the redeploy attempts that are over
Finished(a) == a < launches \/ pc = "done"

HasCall(a, P(_)) == \E i \in 1 .. Len(calls) : calls[i].att = a /\ P(calls[i])

\* C18 as stated: the post-deploy probe is attempted exactly when the log
\* stream returned 0 or raised RuntimeError.
C18_ProbeIffStreamPassed ==
    \A a \in 1 .. launches :
        Finished(a) => (HasCall(a, StreamPassed) <=> HasCall(a, OnlineProbeCall))

\* C18 amended: RuntimeError continues like exit code 0; the post-deploy
\* lookup is attempted exactly when the stream returned 0 or raised
\* RuntimeError, and the post-deploy probe exactly when that lookup
\* succeeded.
C18_LookupIffStreamPassed ==
    \A i \in 1 .. Len(calls) :
        /\ StreamPassed(calls[i]) =>
             IF i = Len(calls)
             THEN pc \in {"signal_online", "start_online", "lookup"}
             ELSE calls[i + 1].op = "lookup" /\ calls[i + 1].att = calls[i].att
        /\ (calls[i].op = "lookup" /\ calls[i].att >= 1) =>
             /\ i > 1
             /\ StreamPassed(calls[i - 1])
             /\ calls[i - 1].att = calls[i].att
             /\ calls[i].ok =>
                  IF i = Len(calls)
                  THEN pc = "probe"
                  ELSE OnlineProbeCall(calls[i + 1])
        /\ OnlineProbeCall(calls[i]) =>
             /\ i > 1
             /\ calls[i - 1].op = "lookup" /\ calls[i - 1].ok
             /\ calls[i - 1].att = calls[i].att

C18_Witness ==
    \E i \in 1 .. Len(calls) :
        /\ i + 2 <= Len(calls)
        /\ calls[i].op = "stream" /\ calls[i].exc = "RuntimeError"
        /\ calls[i + 1].op = "lookup" /\ calls[i + 1].ok
        /\ OnlineProbeCall(calls[i + 2])

\* C19: sys.stdout is the discarding buffer only while the logs are
\* streamed and the original stream in every other state, whatever way the
\* streaming step ended.
C19_StdoutRestored ==
    /\ pc = "streaming" => stdout = "StringIO"
    /\ pc # "streaming" => stdout = "original"

C19_Witness ==
    /\ pc = "done"
    /\ Len(calls) >= 1
    /\ calls[Len(calls)].op = "stream"
    /\ calls[Len(calls)].exc = "RESTAPIError"
    /\ result.kind = "raise"
    /\ stdout = "original"

====
